---- MODULE Spec2Model ----
(***************************************************************************)
(* The upload endpoints of app.py (POST /therapies, POST /radiation), the  *)
(* health check, the lazily built converter singleton and the scratch-file *)
(* cleanup task, as a state machine over the asyncio event loop.           *)
(*                                                                         *)
(* All three handlers are `async def`: they run on the event-loop thread.  *)
(* A handler gives the loop back only at an `await`; the single await of   *)
(* an upload handler is `await file.read()`.  pdf_to_markdown_text and     *)
(* get_therapy_json / get_radiation_json are called without await, so the  *)
(* handler keeps the loop while they run.  `running` is the request whose  *)
(* handler owns the loop (None when the loop is free).                     *)
(***************************************************************************)
EXTENDS Integers, Sequences, FiniteSets, TLC

\* Number of upload requests in flight over the life of the process.
NumRequests == 2

Requests == 1..NumRequests

\* Scratch names tempfile can hand out (one per request is enough).
Paths == 1..NumRequests

\* Python's None for handles and paths.
None == 0

\* fs[p] of a path that does not exist.
Absent == -1

\* fs[p] of a file that exists and holds no bytes yet.
EmptyFile == 0

\* The bytes uploaded with request r: distinct uploads.
Upload(r) == r

\* The endpoint request r is posted to: /therapies and /radiation requests
\* alternate, so that requests to both are in flight together.
EndpointOf(r) == IF r % 2 = 1 THEN "therapies" ELSE "radiation"

(***************************************************************************)
(* Filenames: a filename is absent (None) or a string, a string being a    *)
(* sequence of characters.                                                 *)
(***************************************************************************)
NoFilename == [has |-> FALSE, s |-> <<>>]

Name(s) == [has |-> TRUE, s |-> s]

Filenames ==
    { NoFilename,
      Name(<<>>),
      Name(<< "R", ".", "P", "d", "f" >>),
      Name(<< "r", ".", "t", "x", "t" >>),
      Name(<< "p", "d", "f" >>) }

\* str.lower() on one character.
LowerChar(c) ==
    CASE c = "R" -> "r"
      [] c = "P" -> "p"
      [] c = "D" -> "d"
      [] c = "F" -> "f"
      [] OTHER -> c

\* str.lower()
Lower(s) == [i \in DOMAIN s |-> LowerChar(s[i])]

\* str.endswith(suffix)
EndsWith(s, suffix) ==
    /\ Len(s) >= Len(suffix)
    /\ SubSeq(s, Len(s) - Len(suffix) + 1, Len(s)) = suffix

PdfSuffix == << ".", "p", "d", "f" >>

\* A mutation of IsPdfFilename: the suffix is tested without its dot.
IsPdfFilename_NoDot(fn) ==
    /\ fn.has
    /\ fn.s # <<>>
    /\ EndsWith(Lower(fn.s), << "p", "d", "f" >>)

\* The negation of app.py's guard
\*   not file.filename or not file.filename.lower().endswith('.pdf')
IsPdfFilename(fn) ==
    /\ fn.has
    /\ fn.s # <<>>
    /\ EndsWith(Lower(fn.s), PdfSuffix)

(***************************************************************************)
(* Text: a sequence of characters, 0 a whitespace character and d > 0 a    *)
(* word read from the document whose bytes are d.                          *)
(***************************************************************************)
RECURSIVE LStrip(_)
LStrip(t) == IF t # <<>> /\ Head(t) = 0 THEN LStrip(Tail(t)) ELSE t

RECURSIVE RStrip(_)
RStrip(t) ==
    IF t # <<>> /\ t[Len(t)] = 0 THEN RStrip(SubSeq(t, 1, Len(t) - 1)) ELSE t

\* str.strip()
Strip(t) == RStrip(LStrip(t))

\* not markdown_text.strip()
IsBlank(t) == Strip(t) = <<>>

NoText == <<>>

\* What pdf_to_markdown_text can return for a file holding `content`:
\* nothing, whitespace only, or the document's words.
ConverterTexts(content) ==
    IF content = EmptyFile
    THEN { <<>>, << 0 >> }
    ELSE { <<>>, << 0 >>, << content >>, << 0, content, 0 >> }

(***************************************************************************)
(* Values of the loosely typed extraction result.  A value is a record     *)
(* [t, v]: t its Python type ("numstr" a str of digits, "datestr" a str    *)
(* holding an ISO date, "str" any other str), v what tells two values of   *)
(* one type apart.  A list of drug mappings is [t |-> "list", items].      *)
(***************************************************************************)
Null == [t |-> "null", v |-> 0]

StrV(n) == [t |-> "str", v |-> n]

NumStrV(n) == [t |-> "numstr", v |-> n]

DateStrV(n) == [t |-> "datestr", v |-> n]

IntV(n) == [t |-> "int", v |-> n]

FloatV(n) == [t |-> "float", v |-> n]

BoolV(n) == [t |-> "bool", v |-> n]

DateV(n) == [t |-> "date", v |-> n]

ListV(items) == [t |-> "list", items |-> items]

\* The outcome of a field that does not validate.
Invalid == [t |-> "invalid", v |-> 0]

Field(name, type, required) == [name |-> name, type |-> type, required |-> required]

\* therapy_models.DrugAdministered
DrugAdministeredFields ==
    << Field("drug_name", "str", TRUE),
       Field("dosage", "float", FALSE),
       Field("unit", "str", FALSE) >>

\* therapy_models.TherapyReport
TherapyReportFields ==
    << Field("patient_id", "str", TRUE),
       Field("therapy_type", "str", TRUE),
       Field("administration_route", "str", TRUE),
       Field("drugs_administered", "drugs", TRUE),
       Field("first_date_of_therapy", "date", TRUE),
       Field("number_of_cycles", "int", TRUE),
       Field("cycle_interval_days", "int", TRUE),
       Field("adverse_event_observed", "bool", TRUE),
       Field("adverse_event_medication", "str", FALSE),
       Field("comment", "str", FALSE),
       Field("hospital_name", "str", TRUE),
       Field("hospital_location", "str", TRUE) >>

\* rad_models.RadiationTherapyReport
RadiationTherapyReportFields ==
    << Field("patient_name", "str", TRUE),
       Field("test_therapy", "str", TRUE),
       Field("radiation_type", "str", TRUE),
       Field("start_date", "date", TRUE),
       Field("end_date", "date", TRUE),
       Field("fractions", "int", TRUE),
       Field("dosage", "float", TRUE),
       Field("unit", "str", TRUE),
       Field("area_treated", "str", TRUE),
       Field("events", "str", FALSE),
       Field("medication", "str", FALSE),
       Field("lab_name", "str", TRUE),
       Field("lab_location", "str", TRUE),
       Field("comment", "str", FALSE) >>

\* The record an endpoint builds: TherapyReport on /therapies,
\* RadiationTherapyReport on /radiation.
ReportFields(endpoint) ==
    IF endpoint = "therapies" THEN TherapyReportFields ELSE RadiationTherapyReportFields

FieldNames(fields) == { fields[i].name : i \in DOMAIN fields }

\* A scalar annotation applied to a value: the validated value, or Invalid.
\* str takes a str as it is; int, float and date also take their JSON
\* spellings; None is taken by an Optional field only.
Coerce(type, optional, val) ==
    CASE val.t = "null" -> IF optional THEN Null ELSE Invalid
      [] type = "str" /\ val.t \in {"str", "numstr", "datestr"} -> val
      [] type = "int" /\ val.t = "int" -> val
      [] type = "int" /\ val.t = "numstr" -> IntV(val.v)
      [] type = "float" /\ val.t = "float" -> val
      [] type = "float" /\ val.t \in {"int", "numstr"} -> FloatV(val.v)
      [] type = "bool" /\ val.t = "bool" -> val
      [] type = "date" /\ val.t = "date" -> val
      [] type = "date" /\ val.t = "datestr" -> DateV(val.v)
      [] OTHER -> Invalid

\* One field of a model without nested models, from the mapping m.
FlatFieldValue(f, m) ==
    IF f.name \in DOMAIN m
    THEN Coerce(f.type, ~f.required, m[f.name])
    ELSE IF f.required THEN Invalid ELSE Null

\* DrugAdministered(**m) succeeds.
DrugValid(m) ==
    \A i \in DOMAIN DrugAdministeredFields :
        FlatFieldValue(DrugAdministeredFields[i], m) # Invalid

\* DrugAdministered(**m).model_dump()
DrugDump(m) ==
    [n \in FieldNames(DrugAdministeredFields) |->
        LET i == CHOOSE j \in DOMAIN DrugAdministeredFields :
                     DrugAdministeredFields[j].name = n
        IN  FlatFieldValue(DrugAdministeredFields[i], m)]

\* One field of a report model, from the mapping m.
FieldValue(f, m) ==
    IF f.type # "drugs"
    THEN FlatFieldValue(f, m)
    ELSE IF f.name \notin DOMAIN m THEN Invalid
    ELSE IF m[f.name].t # "list" THEN Invalid
    ELSE IF \A k \in DOMAIN m[f.name].items : DrugValid(m[f.name].items[k])
    THEN ListV([k \in DOMAIN m[f.name].items |-> DrugDump(m[f.name].items[k])])
    ELSE Invalid

\* Model(**m) succeeds: every declared field validates (keys that are not
\* fields are ignored).
ModelValid(fields, m) ==
    \A i \in DOMAIN fields : FieldValue(fields[i], m) # Invalid

\* Model(**m).model_dump(): every declared field, validated, an absent
\* Optional one as None.
ModelDump(fields, m) ==
    [n \in FieldNames(fields) |->
        LET i == CHOOSE j \in DOMAIN fields : fields[j].name = n
        IN  FieldValue(fields[i], m)]

(***************************************************************************)
(* What get_therapy_json / get_radiation_json hand back: None, a mapping,  *)
(* or a JSON value that is no mapping.                                     *)
(***************************************************************************)
PyNone == [kind |-> "none"]

Dict(m) == [kind |-> "dict", map |-> m]

PyList(n) == [kind |-> "list", len |-> n]

EmptyMap == [n \in {} |-> Null]

\* m without key k.
Without(m, k) == [n \in DOMAIN m \ {k} |-> m[n]]

\* A /therapies extraction as the language model spells it in JSON, for the
\* document whose bytes are d: dates as strings, Optional fields left out.
TherapyJson(d) ==
    [ patient_id |-> StrV(d),
      therapy_type |-> StrV(0),
      administration_route |-> StrV(0),
      drugs_administered |-> ListV(<< [drug_name |-> StrV(0), dosage |-> IntV(75)] >>),
      first_date_of_therapy |-> DateStrV(1),
      number_of_cycles |-> IntV(6),
      cycle_interval_days |-> NumStrV(21),
      adverse_event_observed |-> BoolV(0),
      hospital_name |-> StrV(0),
      hospital_location |-> StrV(0) ]

\* A /radiation extraction spelled in JSON for the document d.
RadiationJson(d) ==
    [ patient_name |-> StrV(d),
      test_therapy |-> StrV(0),
      radiation_type |-> StrV(0),
      start_date |-> DateStrV(1),
      end_date |-> DateStrV(2),
      fractions |-> IntV(10),
      dosage |-> IntV(30),
      unit |-> StrV(0),
      area_treated |-> StrV(0),
      lab_name |-> StrV(0),
      lab_location |-> StrV(0) ]

ReportJson(endpoint, d) ==
    IF endpoint = "therapies" THEN TherapyJson(d) ELSE RadiationJson(d)

\* The field that names the patient of a report.
PatientField(endpoint) ==
    IF endpoint = "therapies" THEN "patient_id" ELSE "patient_name"

\* A required str field and a required int field of each report.
PlaceField(endpoint) ==
    IF endpoint = "therapies" THEN "hospital_name" ELSE "lab_name"

CountField(endpoint) ==
    IF endpoint = "therapies" THEN "number_of_cycles" ELSE "fractions"

\* The document a text was read from: its first word.
DocumentOf(text) == Head(Strip(text))

\* An extraction from which the record cannot be built: on /therapies one
\* that lacks a required field, on /radiation one with a wrongly typed field.
InvalidJson(endpoint, d) ==
    IF endpoint = "therapies"
    THEN Without(TherapyJson(d), PlaceField(endpoint))
    ELSE [RadiationJson(d) EXCEPT ![CountField(endpoint)] = StrV(0)]

\* What the extraction call can return for a non-blank text: nothing, an
\* empty mapping, a mapping that fits the schema, one that does not, or a
\* JSON value that is no mapping.
ExtractionResults(endpoint, text) ==
    LET d == DocumentOf(text)
    IN  { PyNone,
          Dict(EmptyMap),
          Dict(ReportJson(endpoint, d)),
          Dict(InvalidJson(endpoint, d)),
          PyList(1) }

\* A mutation of Falsy: `is None` in place of `not`.
Falsy_NoneOnly(x) == x.kind = "none"

\* not structured_data
Falsy(x) ==
    \/ x.kind = "none"
    \/ x.kind = "dict" /\ DOMAIN x.map = {}
    \/ x.kind = "list" /\ x.len = 0

\* A mutation of ValidatedData: the raw mapping is returned even when the
\* record was built.
ValidatedData_AlwaysRaw(endpoint, raw) == raw

\* A mutation of ValidatedData: a mapping that fails validation is dropped.
ValidatedData_Strict(endpoint, raw) ==
    IF raw.kind = "dict" /\ ModelValid(ReportFields(endpoint), raw.map)
    THEN Dict(ModelDump(ReportFields(endpoint), raw.map))
    ELSE PyNone

\* try: report = Report(**structured_data); validated_data = report.model_dump()
\* except Exception: validated_data = structured_data
\* (Report(**x) raises TypeError for an x that is no mapping).
ValidatedData(endpoint, raw) ==
    IF raw.kind = "dict" /\ ModelValid(ReportFields(endpoint), raw.map)
    THEN Dict(ModelDump(ReportFields(endpoint), raw.map))
    ELSE raw

\* TherapyResponse / RadiationResponse declare data: Optional[dict]; building
\* the response validates it.
ResponseBuilds(data) == data.kind \in {"dict", "none"}

(***************************************************************************)
(* The process.                                                            *)
(***************************************************************************)
VARIABLES
    credential,        \* MISTRAL_API_KEY is set in os.environ
    _converter,        \* the module global: None or the handle built
    constructions,     \* MarkdownConverter objects built so far
    fs,                \* the scratch directory: path -> Absent, EmptyFile or bytes
    running,           \* the request whose handler owns the event loop, or None
    health,            \* the answer to the last /health call
    pc,                \* where each request's handler stands
    filename,          \* file.filename
    temp_file_path,    \* the handler's local temp_file_path
    files_created,     \* scratch files the request has created
    converter,         \* the handler's local converter
    markdown_text,     \* the handler's local markdown_text
    structured_data,   \* the handler's local structured_data
    converter_calls,   \* calls of pdf_to_markdown_text by the request
    extraction_calls,  \* calls of get_therapy_json / get_radiation_json
    background_tasks,  \* the paths passed to add_task(cleanup_temp_file, .)
    tasks_run,         \* how many of them have run
    cleanup_error,     \* cleanup_temp_file logged a failed os.remove
    response           \* the response or HTTPException the handler ended with

vars ==
    << credential, _converter, constructions, fs, running, health, pc,
       filename, temp_file_path, files_created, converter, markdown_text,
       structured_data, converter_calls, extraction_calls, background_tasks,
       tasks_run, cleanup_error, response >>

globals == << credential, _converter, constructions >>

NoResponse == [status |-> 0, success |-> FALSE, data |-> PyNone, detail |-> "", name |-> NoFilename]

\* HTTPException(status_code, detail)
HTTPException(status, detail) ==
    [status |-> status, success |-> FALSE, data |-> PyNone, detail |-> detail, name |-> NoFilename]

\* TherapyResponse / RadiationResponse(success=True, message=f"... {file.filename}", data=...)
SuccessResponse(fn, data) ==
    [status |-> 200, success |-> TRUE, data |-> data, detail |-> "Successfully processed", name |-> fn]

\* except Exception as e: HTTPException(500, f"Internal server error: {str(e)}");
\* e is named after the call that raised it.
InternalServerError(e) == HTTPException(500, "Internal server error: " \o e)

\* The extraction call of an endpoint.
ExtractionCall(endpoint) ==
    IF endpoint = "therapies" THEN "get_therapy_json" ELSE "get_radiation_json"

\* The response model of an endpoint.
ResponseModel(endpoint) ==
    IF endpoint = "therapies" THEN "TherapyResponse" ELSE "RadiationResponse"

NoHealth == [status |-> 0, text |-> "", configured |-> FALSE]

Init ==
    /\ credential \in BOOLEAN
    /\ _converter = None
    /\ constructions = 0
    /\ fs = [p \in Paths |-> Absent]
    /\ running = None
    /\ health = NoHealth
    /\ pc = [r \in Requests |-> "idle"]
    /\ filename = [r \in Requests |-> NoFilename]
    /\ temp_file_path = [r \in Requests |-> None]
    /\ files_created = [r \in Requests |-> 0]
    /\ converter = [r \in Requests |-> None]
    /\ markdown_text = [r \in Requests |-> NoText]
    /\ structured_data = [r \in Requests |-> PyNone]
    /\ converter_calls = [r \in Requests |-> 0]
    /\ extraction_calls = [r \in Requests |-> 0]
    /\ background_tasks = [r \in Requests |-> <<>>]
    /\ tasks_run = [r \in Requests |-> 0]
    /\ cleanup_error = [r \in Requests |-> FALSE]
    /\ response = [r \in Requests |-> NoResponse]

\* str(e) of the ValueError get_converter raises.
CredentialNotSet == "MISTRAL_API_KEY environment variable not set."

\* A mutation of GetConverter: no `is None` test, a handle is built on every call.
GetConverter_NoCache(conv, built, cred, ctorOk) ==
    IF ~cred
    THEN [raised |-> TRUE, error |-> CredentialNotSet, value |-> None,
          conv |-> conv, built |-> built]
    ELSE IF ~ctorOk
    THEN [raised |-> TRUE, error |-> "MarkdownConverter", value |-> None,
          conv |-> conv, built |-> built]
    ELSE [raised |-> FALSE, error |-> "", value |-> built + 1,
          conv |-> built + 1, built |-> built + 1]

\* A mutation of GetConverter: the credential is read before the `is None`
\* test, on every call.
GetConverter_RecheckCredential(conv, built, cred, ctorOk) ==
    IF ~cred
    THEN [raised |-> TRUE, error |-> CredentialNotSet, value |-> None,
          conv |-> conv, built |-> built]
    ELSE IF conv # None
    THEN [raised |-> FALSE, error |-> "", value |-> conv, conv |-> conv, built |-> built]
    ELSE IF ~ctorOk
    THEN [raised |-> TRUE, error |-> "MarkdownConverter", value |-> None,
          conv |-> None, built |-> built]
    ELSE [raised |-> FALSE, error |-> "", value |-> built + 1,
          conv |-> built + 1, built |-> built + 1]

\* get_converter(), with the global at conv, `built` handles built so far and
\* the credential set or not; ctorOk: MarkdownConverter(api_key=...) does not
\* raise.  raised/error/value: what the call does; conv/built: the state it
\* leaves.
GetConverter(conv, built, cred, ctorOk) ==
    IF conv # None
    THEN [raised |-> FALSE, error |-> "", value |-> conv, conv |-> conv, built |-> built]
    ELSE IF ~cred
    THEN [raised |-> TRUE, error |-> CredentialNotSet, value |-> None,
          conv |-> None, built |-> built]
    ELSE IF ~ctorOk
    THEN [raised |-> TRUE, error |-> "MarkdownConverter", value |-> None,
          conv |-> None, built |-> built]
    ELSE [raised |-> FALSE, error |-> "", value |-> built + 1,
          conv |-> built + 1, built |-> built + 1]

\* A mutation of HealthCheckResult: the clients are built whether or not the
\* credential is set.
HealthCheckResult_AlwaysBuild(conv, built, cred, clientOk, ctorOk) ==
    LET g == GetConverter(conv, built, cred, ctorOk)
    IN  IF ~clientOk \/ g.raised
        THEN [status |-> 500, text |-> "Service unhealthy", configured |-> FALSE,
              conv |-> g.conv, built |-> g.built]
        ELSE [status |-> 200, text |-> "healthy", configured |-> cred,
              conv |-> g.conv, built |-> g.built]

\* A mutation of HealthCheckResult: the check builds a converter of its own
\* instead of asking get_converter() for the shared one.
HealthCheckResult_FreshConverter(conv, built, cred, clientOk, ctorOk) ==
    IF ~cred
    THEN [status |-> 200, text |-> "healthy", configured |-> FALSE,
          conv |-> conv, built |-> built]
    ELSE IF ~clientOk \/ ~ctorOk
    THEN [status |-> 500, text |-> "Service unhealthy", configured |-> FALSE,
          conv |-> conv, built |-> built]
    ELSE [status |-> 200, text |-> "healthy", configured |-> TRUE,
          conv |-> built + 1, built |-> built + 1]

\* health_check(): status/text/configured the answer, conv/built the state it
\* leaves.  clientOk: get_mistral_client() does not raise.
HealthCheckResult(conv, built, cred, clientOk, ctorOk) ==
    IF ~cred
    THEN [status |-> 200, text |-> "healthy", configured |-> FALSE,
          conv |-> conv, built |-> built]
    ELSE IF ~clientOk
    THEN [status |-> 500, text |-> "Service unhealthy", configured |-> FALSE,
          conv |-> conv, built |-> built]
    ELSE LET g == GetConverter(conv, built, cred, ctorOk)
         IN  IF g.raised
             THEN [status |-> 500, text |-> "Service unhealthy", configured |-> FALSE,
                   conv |-> g.conv, built |-> g.built]
             ELSE [status |-> 200, text |-> "healthy", configured |-> TRUE,
                   conv |-> g.conv, built |-> g.built]

\* except HTTPException: raise
OnHTTPException(tasks, path) == tasks

\* except Exception: if temp_file_path: background_tasks.add_task(cleanup_temp_file, temp_file_path)
OnException(tasks, path) ==
    IF path # None THEN Append(tasks, path) ELSE tasks

\* A mutation of CleanupTempFile: the scratch directory is emptied, not the
\* one file removed.
CleanupTempFile_RemoveAll(files, path, removeOk) ==
    IF files[path] # Absent /\ removeOk
    THEN [p \in DOMAIN files |-> Absent]
    ELSE files

\* A mutation of CleanupTempFile: the file is left in place.
CleanupTempFile_NoRemove(files, path, removeOk) == files

\* cleanup_temp_file(path): if os.path.exists(path): os.remove(path); removeOk:
\* os.remove does not raise.
CleanupTempFile(files, path, removeOk) ==
    IF files[path] # Absent /\ removeOk
    THEN [files EXCEPT ![path] = Absent]
    ELSE files

\* A mutation of FreePaths: the file is opened without O_EXCL, under any name.
FreePaths_NoExclusive(files) == Paths

\* The names tempfile.NamedTemporaryFile can open: it creates the file
\* exclusively, so never one that exists.
FreePaths(files) == { p \in Paths : files[p] = Absent }

\* The name handed out.  Names are interchangeable, so the first free one
\* stands for any of them; a name is taken again as soon as it is free.
ScratchName(files) ==
    CHOOSE p \in FreePaths(files) : \A q \in FreePaths(files) : p <= q

\* A mutation of ConvertedPath: the path is kept in one place for all
\* requests, and holds the path of the first request that has one.
ConvertedPath_Shared(r) ==
    temp_file_path[CHOOSE q \in Requests :
                       /\ temp_file_path[q] # None
                       /\ \A q2 \in Requests : temp_file_path[q2] # None => q <= q2]

\* The path handed to pdf_to_markdown_text: the handler's own temp_file_path.
ConvertedPath(r) == temp_file_path[r]

\* The handler of request r ends with `resp` and leaves `tasks` scheduled;
\* its locals die and the event loop is free again.
Exit(r, resp, tasks) ==
    /\ pc' = [pc EXCEPT ![r] = "done"]
    /\ response' = [response EXCEPT ![r] = resp]
    /\ background_tasks' = [background_tasks EXCEPT ![r] = tasks]
    /\ converter' = [converter EXCEPT ![r] = None]
    /\ markdown_text' = [markdown_text EXCEPT ![r] = NoText]
    /\ running' = None

\* The handler of request r goes on to `next` and keeps the event loop.
Goto(r, next) ==
    /\ pc' = [pc EXCEPT ![r] = next]
    /\ running' = r
    /\ UNCHANGED << response, background_tasks >>

\* A request arrives: the filename test, the scratch file is created, and the
\* handler suspends in `await file.read()`.
Receive(r) ==
    /\ pc[r] = "idle"
    /\ running = None
    /\ \E fn \in Filenames, createOk \in BOOLEAN :
        /\ filename' = [filename EXCEPT ![r] = fn]
        /\ IF ~IsPdfFilename(fn)
           THEN /\ Exit(r, HTTPException(400, "Only PDF files are supported"),
                        OnHTTPException(background_tasks[r], temp_file_path[r]))
                /\ UNCHANGED << fs, temp_file_path, files_created >>
           ELSE IF ~createOk
           THEN /\ Exit(r, InternalServerError("NamedTemporaryFile"),
                        OnException(background_tasks[r], temp_file_path[r]))
                /\ UNCHANGED << fs, temp_file_path, files_created >>
           ELSE LET p == ScratchName(fs) IN
                /\ fs' = [fs EXCEPT ![p] = EmptyFile]
                /\ temp_file_path' = [temp_file_path EXCEPT ![r] = p]
                /\ files_created' = [files_created EXCEPT ![r] = @ + 1]
                /\ pc' = [pc EXCEPT ![r] = "reading"]
                /\ UNCHANGED << running, response, background_tasks, converter,
                                markdown_text >>
    /\ UNCHANGED << globals, health, structured_data, converter_calls,
                    extraction_calls, tasks_run, cleanup_error >>

\* file.read() returns and the bytes are written to the scratch file (to the
\* open descriptor: a file unlinked meanwhile stays unlinked).
WriteUpload(r) ==
    /\ pc[r] = "reading"
    /\ running = None
    /\ \E ioOk \in BOOLEAN :
        IF ioOk
        THEN /\ fs' = [fs EXCEPT ![temp_file_path[r]] =
                          IF @ = Absent THEN Absent ELSE Upload(r)]
             /\ Goto(r, "saved")
             /\ UNCHANGED << converter, markdown_text >>
        ELSE /\ Exit(r, InternalServerError("file.read"),
                     OnException(background_tasks[r], temp_file_path[r]))
             /\ UNCHANGED fs
    /\ UNCHANGED << globals, health, filename, temp_file_path,
                    files_created, structured_data, converter_calls,
                    extraction_calls, tasks_run, cleanup_error >>

\* converter = get_converter(), then pdf_to_markdown_text is called.
CallConverter(r) ==
    /\ pc[r] = "saved"
    /\ running = r
    /\ \E ctorOk \in BOOLEAN :
        LET g == GetConverter(_converter, constructions, credential, ctorOk)
        IN  /\ _converter' = g.conv
            /\ constructions' = g.built
            /\ IF g.raised
               THEN /\ Exit(r, InternalServerError(g.error),
                            OnException(background_tasks[r], temp_file_path[r]))
                    /\ UNCHANGED converter_calls
               ELSE /\ converter' = [converter EXCEPT ![r] = g.value]
                    /\ converter_calls' = [converter_calls EXCEPT ![r] = @ + 1]
                    /\ Goto(r, "converting")
                    /\ UNCHANGED markdown_text
    /\ UNCHANGED << credential, fs, health, filename, temp_file_path,
                    files_created, structured_data, extraction_calls, tasks_run,
                    cleanup_error >>

\* pdf_to_markdown_text returns the text of the file at temp_file_path, or
\* raises; a blank text is a 400, any other text goes to the extraction call.
ConverterReturns(r) ==
    /\ pc[r] = "converting"
    /\ running = r
    /\ \/ /\ Exit(r, InternalServerError("pdf_to_markdown_text"),
                  OnException(background_tasks[r], temp_file_path[r]))
          /\ UNCHANGED extraction_calls
       \/ /\ fs[ConvertedPath(r)] # Absent
          /\ \E text \in ConverterTexts(fs[ConvertedPath(r)]) :
               IF IsBlank(text)
               THEN /\ Exit(r, HTTPException(400, "Failed to extract text from PDF"),
                            OnHTTPException(background_tasks[r], temp_file_path[r]))
                    /\ UNCHANGED extraction_calls
               ELSE /\ markdown_text' = [markdown_text EXCEPT ![r] = text]
                    /\ extraction_calls' = [extraction_calls EXCEPT ![r] = @ + 1]
                    /\ Goto(r, "extracting")
                    /\ UNCHANGED converter
    /\ UNCHANGED << globals, fs, health, filename, temp_file_path,
                    files_created, structured_data, converter_calls, tasks_run,
                    cleanup_error >>

\* get_therapy_json / get_radiation_json returns or raises; the rest of the
\* handler: the emptiness test, validation, add_task, the response.
ExtractionReturns(r) ==
    /\ pc[r] = "extracting"
    /\ running = r
    /\ \/ /\ Exit(r, InternalServerError(ExtractionCall(EndpointOf(r))),
                  OnException(background_tasks[r], temp_file_path[r]))
          /\ UNCHANGED structured_data
       \/ \E raw \in ExtractionResults(EndpointOf(r), markdown_text[r]) :
            /\ structured_data' = [structured_data EXCEPT ![r] = raw]
            /\ IF Falsy(raw)
               THEN Exit(r, HTTPException(400, "Failed to extract structured data from document"),
                         OnHTTPException(background_tasks[r], temp_file_path[r]))
               ELSE LET validated_data == ValidatedData(EndpointOf(r), raw)
                        scheduled == Append(background_tasks[r], temp_file_path[r])
                    IN  IF ResponseBuilds(validated_data)
                        THEN Exit(r, SuccessResponse(filename[r], validated_data), scheduled)
                        ELSE Exit(r, InternalServerError(ResponseModel(EndpointOf(r))),
                                  OnException(scheduled, temp_file_path[r]))
    /\ UNCHANGED << globals, fs, health, filename, temp_file_path,
                    files_created, converter_calls, extraction_calls, tasks_run,
                    cleanup_error >>

\* The next background task of a request runs on the event loop.  The tasks
\* run are those of the response the handler returned: the response made
\* from a raised HTTPException carries none.
RunCleanup(r) ==
    /\ pc[r] = "done"
    /\ response[r].status = 200
    /\ running = None
    /\ tasks_run[r] < Len(background_tasks[r])
    /\ \E removeOk \in BOOLEAN :
        LET path == background_tasks[r][tasks_run[r] + 1]
        IN  /\ fs' = CleanupTempFile(fs, path, removeOk)
            /\ cleanup_error' = [cleanup_error EXCEPT ![r] =
                                    @ \/ (fs[path] # Absent /\ ~removeOk)]
    /\ tasks_run' = [tasks_run EXCEPT ![r] = @ + 1]
    /\ UNCHANGED << globals, running, health, pc, filename,
                    temp_file_path, files_created, converter, markdown_text,
                    structured_data, converter_calls, extraction_calls,
                    background_tasks, response >>

\* GET /health: no await in it, it runs in one piece when the loop is free.
HealthCheck ==
    /\ running = None
    /\ \E clientOk \in BOOLEAN, ctorOk \in BOOLEAN :
        LET h == HealthCheckResult(_converter, constructions, credential, clientOk, ctorOk)
        IN  /\ health' = [status |-> h.status, text |-> h.text, configured |-> h.configured]
            /\ _converter' = h.conv
            /\ constructions' = h.built
    /\ UNCHANGED << credential, fs, running, pc, filename, temp_file_path,
                    files_created, converter, markdown_text, structured_data,
                    converter_calls, extraction_calls, background_tasks, tasks_run,
                    cleanup_error, response >>

\* The environment of the process gains or loses MISTRAL_API_KEY, between two
\* callbacks of the event loop.
SetCredential ==
    /\ running = None
    /\ credential' = ~credential
    /\ UNCHANGED << _converter, constructions, fs, running, health, pc,
                    filename, temp_file_path, files_created, converter,
                    markdown_text, structured_data, converter_calls,
                    extraction_calls, background_tasks, tasks_run, cleanup_error,
                    response >>

Next ==
    \/ \E r \in Requests : Receive(r)
    \/ \E r \in Requests : WriteUpload(r)
    \/ \E r \in Requests : CallConverter(r)
    \/ \E r \in Requests : ConverterReturns(r)
    \/ \E r \in Requests : ExtractionReturns(r)
    \/ \E r \in Requests : RunCleanup(r)
    \/ HealthCheck
    \/ SetCredential

Spec == Init /\ [][Next]_vars

\* The scheduling the event loop gives: a handler that owns the loop runs on
\* (its synchronous calls return or raise), and the background task of a
\* returned response is run.
FairSpec ==
    /\ Spec
    /\ \A r \in Requests :
        /\ WF_vars(CallConverter(r))
        /\ WF_vars(ConverterReturns(r))
        /\ WF_vars(ExtractionReturns(r))
        /\ WF_vars(RunCleanup(r))

(***************************************************************************)
(* The claims.                                                             *)
(***************************************************************************)
Done(r) == pc[r] = "done"

Succeeded(r) == Done(r) /\ response[r].status = 200

Failed(r) == Done(r) /\ response[r].status \in {400, 500}

\* The request has scheduled cleanup_temp_file for its scratch path.
CleanupScheduled(r) ==
    \E i \in DOMAIN background_tasks[r] : background_tasks[r][i] = temp_file_path[r]

\* C1: every request that ends in a 400 or a 500 after its scratch file was
\* created has scheduled cleanup_temp_file for its scratch path when the
\* handler exits.
C1_FailureSchedulesCleanup ==
    \A r \in Requests :
        Failed(r) /\ temp_file_path[r] # None => CleanupScheduled(r)

\* The filename is missing, empty, or its last four characters, lowered, are
\* not ".pdf".
MissingOrNotPdf(fn) ==
    \/ ~fn.has
    \/ Len(fn.s) < 4
    \/ \E i \in 1..4 : LowerChar(fn.s[Len(fn.s) - 4 + i]) # PdfSuffix[i]

\* C2: a request whose filename is missing, empty or does not end in ".pdf"
\* (case-insensitively) ends with a 400, and in no state has it created a
\* scratch file or called the converter or the extraction client.
C2_BadFilenameRejectedEarly ==
    \A r \in Requests :
        pc[r] # "idle" /\ MissingOrNotPdf(filename[r]) =>
            /\ Done(r)
            /\ response[r].status = 400
            /\ temp_file_path[r] = None
            /\ files_created[r] = 0
            /\ converter_calls[r] = 0
            /\ extraction_calls[r] = 0
            /\ background_tasks[r] = <<>>
            /\ \A p \in Paths : fs[p] # Upload(r)

\* C2 witness: one request without a filename and one with a .txt name have
\* both been answered 400.
C2_Witness ==
    \E r1, r2 \in Requests :
        /\ Done(r1) /\ filename[r1] = NoFilename /\ response[r1].status = 400
        /\ Done(r2) /\ filename[r2] = Name(<< "r", ".", "t", "x", "t" >>)
        /\ response[r2].status = 400

\* The scratch file request r wrote does not exist: nothing is at its path,
\* or a file another request created there since.
ScratchGone(r) == temp_file_path[r] # None /\ fs[temp_file_path[r]] # Upload(r)

\* C3: a request that ends with a success response created exactly one
\* scratch file, and once the response is built the file is eventually absent
\* (the background task being run, and unless os.remove failed).
C3_SuccessFileEventuallyDeleted ==
    \A r \in Requests :
        /\ [](Succeeded(r) => files_created[r] = 1 /\ temp_file_path[r] # None)
        /\ (Succeeded(r) ~> (ScratchGone(r) \/ cleanup_error[r]))

\* C3 witness: a success response whose cleanup task has run and removed the
\* scratch file.
C3_Witness ==
    \E r \in Requests :
        /\ Succeeded(r)
        /\ files_created[r] = 1
        /\ tasks_run[r] = 1
        /\ ~cleanup_error[r]
        /\ ScratchGone(r)

\* The handler of request r has started and not ended.
InHandler(r) == pc[r] \notin {"idle", "done"}

\* C4: a request gives up the event loop (so that other requests can take
\* steps) while it is inside its converter call or its extraction call, and
\* nowhere else.
C4_SuspendsExactlyInExternalCalls ==
    \A r \in Requests :
        InHandler(r) => (running # r <=> pc[r] \in {"converting", "extracting"})

\* C5: a success response's data names the document uploaded with that very
\* request, and so do the text and the extraction the handler holds.
C5_NoCrossContamination ==
    \A r \in Requests :
        /\ markdown_text[r] # NoText => DocumentOf(markdown_text[r]) = Upload(r)
        /\ structured_data[r].kind = "dict" /\ ~Falsy(structured_data[r]) =>
              structured_data[r].map[PatientField(EndpointOf(r))] = StrV(Upload(r))
        /\ Succeeded(r) =>
              /\ response[r].data.kind = "dict"
              /\ response[r].data.map[PatientField(EndpointOf(r))] = StrV(Upload(r))

\* C5 witness: a /therapies and a /radiation request with distinct uploads
\* have both succeeded, their scratch files having existed side by side.
C5_Witness ==
    \E r1, r2 \in Requests :
        /\ r1 # r2
        /\ Succeeded(r1) /\ Succeeded(r2)
        /\ temp_file_path[r1] # temp_file_path[r2]
        /\ EndpointOf(r1) # EndpointOf(r2)

\* C6: at most one converter handle is ever built; once the global is set it
\* is never replaced and every handler gets that handle; with the global
\* unset and the credential missing, get_converter builds nothing and the
\* handler that called it ends with a 500.
C6_ConverterBuiltOnce ==
    [][ /\ constructions' <= 1
        /\ _converter # None => _converter' = _converter
        /\ \A r \in Requests : converter'[r] # None => converter'[r] = _converter'
        /\ _converter = None /\ ~credential =>
              /\ _converter' = None
              /\ constructions' = constructions
              /\ \A r \in Requests :
                    CallConverter(r) => Done(r)' /\ response'[r].status = 500
      ]_vars

\* C6 witness: two handlers and a health check have all called get_converter
\* and one handle was built.
C6_Witness ==
    \E r1, r2 \in Requests :
        /\ r1 # r2
        /\ converter_calls[r1] = 1 /\ converter_calls[r2] = 1
        /\ health.status = 200 /\ health.configured
        /\ constructions = 1
        /\ _converter = 1

\* The record of the endpoint cannot be built from the raw extraction.
InvalidExtraction(r) ==
    /\ structured_data[r].kind = "dict"
    /\ ~Falsy(structured_data[r])
    /\ ~ModelValid(ReportFields(EndpointOf(r)), structured_data[r].map)

ValidExtraction(r) ==
    /\ structured_data[r].kind = "dict"
    /\ ~Falsy(structured_data[r])
    /\ ModelValid(ReportFields(EndpointOf(r)), structured_data[r].map)

\* C8: when the record can be built from the raw extraction the success
\* response's data is the record's model_dump: every declared field, each
\* value in its declared type, an absent Optional field as None.
C8_ValidExtractionIsSerialized ==
    \A r \in Requests :
        Done(r) /\ ValidExtraction(r) =>
            /\ response[r].status = 200
            /\ response[r].data.kind = "dict"
            /\ DOMAIN response[r].data.map = FieldNames(ReportFields(EndpointOf(r)))
            /\ \A i \in DOMAIN ReportFields(EndpointOf(r)) :
                  LET f == ReportFields(EndpointOf(r))[i]
                  IN  response[r].data.map[f.name] = FieldValue(f, structured_data[r].map)

\* C8 witness: a request has succeeded with a serialized record that differs
\* from the raw mapping it was built from.
C8_Witness ==
    \E r \in Requests :
        /\ Succeeded(r)
        /\ ValidExtraction(r)
        /\ response[r].data # structured_data[r]

\* C9: with the credential absent a /health call answers "healthy" with the
\* configured flag false, and builds no converter.
C9_HealthWithoutCredential ==
    [][ HealthCheck /\ ~credential =>
          /\ health' = [status |-> 200, text |-> "healthy", configured |-> FALSE]
          /\ _converter' = _converter
          /\ constructions' = constructions
      ]_vars

\* C9 witness: /health has answered healthy and unconfigured, the credential
\* is absent and no converter exists.
C9_Witness ==
    /\ health = [status |-> 200, text |-> "healthy", configured |-> FALSE]
    /\ ~credential
    /\ _converter = None
    /\ constructions = 0

\* What a /health call must leave alone besides the converter singleton.
HealthFrame ==
    UNCHANGED << credential, fs, running, pc, filename, temp_file_path,
                 files_created, converter, markdown_text, structured_data,
                 converter_calls, extraction_calls, background_tasks, tasks_run,
                 cleanup_error, response >>

Caught(r, e) == response[r] = InternalServerError(e)

\* One of the calls of the handler raised: the creation or the writing of
\* the scratch file, get_converter (the credential missing, or the
\* constructor failing), the converter or the extraction client.
StageRaised(r) ==
    \E e \in { "NamedTemporaryFile", "file.read", CredentialNotSet,
                "MarkdownConverter", "pdf_to_markdown_text",
                ExtractionCall(EndpointOf(r)) } : Caught(r, e)

\* The converter was called and returned, and its text was blank: the
\* extraction client was not called.
ConverterTextBlank(r) ==
    /\ converter_calls[r] = 1
    /\ extraction_calls[r] = 0
    /\ ~Caught(r, "pdf_to_markdown_text")

\* The extraction client was called and returned an empty or absent result.
ExtractionEmpty(r) ==
    /\ extraction_calls[r] = 1
    /\ ~Caught(r, ExtractionCall(EndpointOf(r)))
    /\ Falsy(structured_data[r])

\* C11: a request that has ended has one of three outcomes: a 400 exactly
\* when its filename is bad or missing, the converter's text is blank or the
\* extraction is empty or absent; a 500 exactly when scratch-file creation,
\* get_converter, the converter or the extraction client raised; a success
\* response in every other case.
C11_ThreeOutcomes ==
    \A r \in Requests :
        Done(r) =>
            /\ response[r].status \in {200, 400, 500}
            /\ response[r].status = 400 <=>
                  \/ MissingOrNotPdf(filename[r])
                  \/ ConverterTextBlank(r)
                  \/ ExtractionEmpty(r)
            /\ response[r].status = 500 <=> StageRaised(r)
            /\ response[r].success <=> response[r].status = 200

\* What a scratch directory can hold.
ScratchDirs == [Paths -> {Absent, EmptyFile} \cup {Upload(r) : r \in Requests}]

\* cleanup_temp_file, whatever it is given, returns: with the file missing or
\* os.remove failing the directory is as it was, otherwise the one file is gone.
CleanupSwallows ==
    \A files \in ScratchDirs, path \in Paths, removeOk \in BOOLEAN :
        CleanupTempFile(files, path, removeOk) =
            IF files[path] = Absent \/ ~removeOk
            THEN files
            ELSE [files EXCEPT ![path] = Absent]

\* C12: the scratch file of a request whose handler has not ended is never
\* removed; a cleanup task runs only for a request whose response is built,
\* on a path that request scheduled, and whether it removes the file, fails
\* to, or finds no file, it leaves the response and every handler as they
\* are: a failure is only logged.
C12_CleanupAfterResponse ==
    [][ /\ CleanupSwallows
        /\ \A r \in Requests :
            /\ InHandler(r) /\ fs[temp_file_path[r]] # Absent =>
                  fs'[temp_file_path[r]] # Absent
            /\ tasks_run'[r] # tasks_run[r] =>
                  /\ Done(r)
                  /\ response[r].status = 200
                  /\ tasks_run'[r] = tasks_run[r] + 1
                  /\ tasks_run'[r] \in DOMAIN background_tasks[r]
                  /\ UNCHANGED << response, pc, background_tasks, running >>
                  /\ LET path == background_tasks[r][tasks_run'[r]]
                     IN  /\ \/ fs' = fs
                            \/ fs' = [fs EXCEPT ![path] = Absent]
                         /\ cleanup_error'[r] =
                               (cleanup_error[r] \/ (fs[path] # Absent /\ fs' = fs))
      ]_vars

\* C12 witness: the cleanup task of a success response has run and failed to
\* remove the file; the file is still there and the response is the success
\* response.
C12_Witness ==
    \E r \in Requests :
        /\ Succeeded(r)
        /\ response[r].success
        /\ tasks_run[r] = 1
        /\ cleanup_error[r]
        /\ fs[temp_file_path[r]] = Upload(r)

\* The text is empty or holds nothing but whitespace.
AllWhitespace(t) == \A i \in DOMAIN t : t[i] = 0

\* The extraction result is absent or empty.
EmptyResult(x) ==
    \/ x = PyNone
    \/ x.kind = "dict" /\ x.map = EmptyMap
    \/ x.kind = "list" /\ x.len = 0

\* C13: within a request the converter is called at most once, and only
\* with the scratch file written; the extraction client is called at most
\* once, and only with the text the converter returned, which is not blank;
\* an extraction result is held only after that call, and a success
\* response is built only from a result that is neither absent nor empty.
C13_StagesInOrder ==
    [][ \A r \in Requests :
          /\ converter_calls'[r] <= 1
          /\ extraction_calls'[r] <= 1
          /\ converter_calls'[r] # converter_calls[r] =>
                /\ pc[r] = "saved"
                /\ converter_calls[r] = 0
                /\ extraction_calls[r] = 0
                /\ files_created[r] = 1
                /\ fs[temp_file_path[r]] = Upload(r)
          /\ extraction_calls'[r] # extraction_calls[r] =>
                /\ pc[r] = "converting"
                /\ converter_calls[r] = 1
                /\ extraction_calls[r] = 0
                /\ markdown_text'[r] \in ConverterTexts(fs[temp_file_path[r]])
                /\ ~AllWhitespace(markdown_text'[r])
          /\ structured_data'[r] # structured_data[r] =>
                /\ pc[r] = "extracting"
                /\ extraction_calls[r] = 1
          /\ Succeeded(r)' /\ ~Succeeded(r) =>
                /\ pc[r] = "extracting"
                /\ converter_calls[r] = 1
                /\ extraction_calls[r] = 1
                /\ ~EmptyResult(structured_data'[r])
      ]_vars

\* C13 witness: one request went through every stage once and succeeded,
\* another was answered 400 for a blank text and its extraction client was
\* never called.
C13_Witness ==
    \E r1, r2 \in Requests :
        /\ Succeeded(r1)
        /\ converter_calls[r1] = 1 /\ extraction_calls[r1] = 1
        /\ ~EmptyResult(structured_data[r1])
        /\ Done(r2) /\ response[r2].status = 400
        /\ converter_calls[r2] = 1 /\ extraction_calls[r2] = 0

\* Request r is live: it is in its handler with a scratch file, or the
\* scratch file it wrote still exists.
Live(r) ==
    /\ temp_file_path[r] # None
    /\ InHandler(r) \/ fs[temp_file_path[r]] = Upload(r)

\* C14: two live requests never have the same scratch path; while the
\* converter of a request runs, the path it was given is that request's and
\* holds the bytes that request uploaded; every cleanup task of a request
\* names that request's path, and a cleanup step removes nothing but the
\* file that request wrote.
C14_ScratchPathOwnedByOneRequest ==
    /\ [](\A r1, r2 \in Requests :
            r1 # r2 /\ Live(r1) /\ Live(r2) =>
                temp_file_path[r1] # temp_file_path[r2])
    /\ [](\A r \in Requests :
            /\ pc[r] = "converting" =>
                  /\ ConvertedPath(r) = temp_file_path[r]
                  /\ fs[ConvertedPath(r)] = Upload(r)
            /\ \A i \in DOMAIN background_tasks[r] :
                  background_tasks[r][i] = temp_file_path[r])
    /\ [][ \A r \in Requests :
              tasks_run'[r] # tasks_run[r] =>
                  \A p \in Paths :
                      fs'[p] # fs[p] =>
                          /\ p = temp_file_path[r]
                          /\ fs[p] = Upload(r)
                          /\ fs'[p] = Absent
          ]_vars

\* C14 witness: two requests held scratch files side by side, under two
\* paths; the cleanup task of one has removed its file and the file of the
\* other, whose handler is in its converter call, is as it wrote it.
C14_Witness ==
    \E r1, r2 \in Requests :
        /\ r1 # r2
        /\ Succeeded(r1)
        /\ tasks_run[r1] = 1
        /\ fs[temp_file_path[r1]] = Absent
        /\ pc[r2] = "converting"
        /\ temp_file_path[r2] # temp_file_path[r1]
        /\ fs[temp_file_path[r2]] = Upload(r2)

\* C15: on every path through the handler, the path where building the
\* response raises after the success branch scheduled cleanup included,
\* add_task(cleanup_temp_file, .) is called at most once for the request.
C15_CleanupScheduledAtMostOnce ==
    \A r \in Requests : Len(background_tasks[r]) <= 1

\* get_converter called without the credential and with the singleton unset
\* raises and leaves it unset, and the next call, the credential now there
\* and the constructor working, builds and returns a handle; called with the
\* singleton set it returns the singleton, credential or no credential.
GetConverterRecovers ==
    \A built \in 0..NumRequests, ctorOk \in BOOLEAN :
        LET failed == GetConverter(None, built, FALSE, ctorOk)
            later  == GetConverter(failed.conv, failed.built, TRUE, TRUE)
        IN  /\ failed.raised
            /\ failed.error = CredentialNotSet
            /\ failed.conv = None
            /\ failed.built = built
            /\ ~later.raised
            /\ later.value # None
            /\ later.conv = later.value
            /\ \A cred \in BOOLEAN :
                  LET again == GetConverter(later.conv, later.built, cred, ctorOk)
                  IN  /\ ~again.raised
                      /\ again.value = later.value
                      /\ again.conv = later.conv
                      /\ again.built = later.built

\* C16: a handler whose get_converter call failed for want of the credential
\* leaves the singleton unset; once the singleton is set no step clears or
\* replaces it, and a handler that calls get_converter then gets it and goes
\* on to its converter call, the credential being there or not.
C16_SingletonSurvivesMissingCredential ==
    [][ /\ GetConverterRecovers
        /\ _converter # None =>
              /\ _converter' = _converter
              /\ constructions' = constructions
        /\ \A r \in Requests :
              /\ ~Done(r) /\ Caught(r, CredentialNotSet)' =>
                    /\ pc[r] = "saved"
                    /\ ~credential
                    /\ _converter = None
                    /\ _converter' = None
                    /\ constructions' = constructions
              /\ pc[r] = "saved" /\ pc'[r] # "saved" /\ _converter # None =>
                    /\ pc'[r] = "converting"
                    /\ converter'[r] = _converter
      ]_vars

\* C16 witness: a request was answered 500 for the missing credential; the
\* singleton has been built since, a /health call has answered configured,
\* and another request, which called get_converter with the credential gone
\* again, holds the singleton in its converter call.
C16_Witness ==
    \E r1, r2 \in Requests :
        /\ Done(r1) /\ Caught(r1, CredentialNotSet)
        /\ pc[r2] = "converting"
        /\ ~credential
        /\ _converter # None
        /\ converter[r2] = _converter
        /\ constructions = 1
        /\ health.status = 200 /\ health.configured
        /\ converter_calls[r1] = 0

====
